---- MODULE Spec2Model ----
(***************************************************************************)
(* Model of app/__init__.py of vue-fastapi-admin: construction of the      *)
(* FastAPI application (create_app), resolution of the ORM configuration   *)
(* (build_orm_config), the static mount and its exception handler          *)
(* (load_static), the startup event, and the dispatch of requests over the *)
(* routes the construction leaves behind.                                  *)
(*                                                                         *)
(* Python values: a str is a TLA+ string; an optional str (os.getenv) is   *)
(* <<>> for None and <<s>> for the string s.                               *)
(***************************************************************************)
EXTENDS Integers, Sequences, FiniteSets, TLC

VARIABLES
    env,        \* os.environ after load_dotenv(): variable name -> optional str
    dist,       \* URL paths that StaticFiles(directory="web/dist", html=True) resolves to a file
    settings,   \* app.settings.config.settings
    app,        \* the FastAPI object: routes in registration order, exception handlers
    log,        \* records emitted on logger "uvicorn"
    pc,         \* position in create_app / startup_event / serving
    calls,      \* startup tasks started, in order
    completed,  \* startup tasks that returned normally, in order
    request,    \* Some(path) of the last request answered, None before the first
    followed,   \* TRUE when that request was made by following a redirect
    exc,        \* Some(HTTPException) raised while answering it, None when none was
    response    \* Some(response) sent for it, None before the first

vars ==
    <<env, dist, settings, app, log, pc, calls, completed,
      request, followed, exc, response>>

-----------------------------------------------------------------------------
(* Optional values *)

None == <<>>

Some(s) == <<s>>

-----------------------------------------------------------------------------
(* Bounds and input sets *)

\* longest request path of the exception-handler specification
MaxPathLen == 5

PathChars == {"/", "a", "p", "i"}

RECURSIVE StringsOfLen(_)
StringsOfLen(n) ==
    IF n = 0 THEN {""}
    ELSE {s \o c : s \in StringsOfLen(n - 1), c \in PathChars}

\* every path "/..." over PathChars of length 1..MaxPathLen
Paths == UNION {{"/" \o s : s \in StringsOfLen(n)} : n \in 0..(MaxPathLen - 1)}

\* paths requested of the constructed application
RequestPaths ==
    {"/", "/index.html", "/favicon.ico", "/dashboard/settings", "/ap", "/api",
     "/apifoo", "/api/unknown", "/api/v1/user/list", "/docs"}

\* values of DATABASE_TYPE
DbTypeTokens ==
    {Some("mysql"), Some("sqlite"), Some("MySQL"), Some("postgres"), Some(""), None}

\* values of LOAD_STATIC_FROM_LOCAL
StaticTokens == {Some("true"), Some("True"), Some("false"), None}

MysqlVars ==
    {"MYXQL_HOST", "MYXQL_PORT", "MYXQL_USER", "MYXQL_PASSWORD", "MYXQL_DATABASE"}

\* the value a MYXQL_* variable has when it is set
MysqlValue(name) == "value-of-" \o name

\* contents of web/dist, as the URL paths that resolve to a file
\* (html=True: "/" resolves exactly when index.html is there)
DistContents == {{}, {"/favicon.ico"}, {"/", "/index.html"}, {"/", "/index.html", "/favicon.ico"}}

\* status codes of the HTTPExceptions handed to the exception handler
Statuses == {404, 422, 500}

-----------------------------------------------------------------------------
(* Program constants *)

HTTP_404_NOT_FOUND == 404

\* status code of starlette's RedirectResponse
HTTP_307_TEMPORARY_REDIRECT == 307

\* settings.BASE_DIR
BASE_DIR == "/srv/vue-fastapi-admin"

\* the settings object as imported, before create_app runs
settings_loaded ==
    [APP_TITLE |-> "Vue FastAPI Admin",
     VERSION |-> "0.1.0",
     BASE_DIR |-> BASE_DIR,
     TORTOISE_ORM |-> None]

\* routes FastAPI(openapi_url="/openapi.json") installs itself
FastAPI_routes ==
    << [kind |-> "route", path |-> "/openapi.json", name |-> "openapi"],
       [kind |-> "route", path |-> "/docs", name |-> "swagger_ui_html"] >>

\* routes register_routers(app, prefix="/api") adds
api_routes ==
    << [kind |-> "route", path |-> "/api/v1/user/list", name |-> "api"] >>

\* detail of an HTTPException raised without one: the HTTP reason phrase
Phrase(status) ==
    CASE status = 404 -> "Not Found"
      [] status = 422 -> "Unprocessable Entity"
      [] status = 500 -> "Internal Server Error"
      [] OTHER -> "Error"

HTTPException(status) == [status_code |-> status, detail |-> Phrase(status)]

-----------------------------------------------------------------------------
(* os.getenv and str.startswith *)

getenv(name) == env[name]

startswith(s, prefix) ==
    /\ Len(s) >= Len(prefix)
    /\ SubSeq(s, 1, Len(prefix)) = prefix

-----------------------------------------------------------------------------
(* build_orm_config: the value returned and the records logged *)

LogRecord(level, msg) == [level |-> level, msg |-> msg]

MsgMysql == "using the MySQL database"

MsgSqlite == "using the SQLite database"

MsgFallback == "no database type given, using the SQLite database by default"

MsgStatic == "serving the static pages with FastAPI"

MsgNoStatic == "static pages not served by FastAPI, start the static server separately"

\* orm_config with the default connection written out instead of derived
orm_config_fixed_default(db_type, credentials) ==
    [connections |->
        [c \in {db_type} |->
            [engine |-> "tortoise.backends." \o db_type,
             credentials |-> credentials]],
     apps |->
        [models |->
            [models |-> <<"app.models">>,
             default_connection |-> "sqlite"]],
     use_tz |-> FALSE,
     timezone |-> "Asia/Shanghai"]

\* lines 84-99: the dict returned, for the db_type and credentials of lines 67-82
orm_config(db_type, credentials) ==
    [connections |->
        [c \in {db_type} |->
            [engine |-> "tortoise.backends." \o db_type,
             credentials |-> credentials]],
     apps |->
        [models |->
            [models |-> <<"app.models">>,
             default_connection |-> db_type]],
     use_tz |-> FALSE,
     timezone |-> "Asia/Shanghai"]

\* mysql_credentials with a default port substituted for an absent MYXQL_PORT
mysql_credentials_default_port ==
    [host |-> getenv("MYXQL_HOST"),
     port |-> IF getenv("MYXQL_PORT") = None THEN Some("3306") ELSE getenv("MYXQL_PORT"),
     user |-> getenv("MYXQL_USER"),
     password |-> getenv("MYXQL_PASSWORD"),
     database |-> getenv("MYXQL_DATABASE")]

mysql_credentials ==
    [host |-> getenv("MYXQL_HOST"),
     port |-> getenv("MYXQL_PORT"),
     user |-> getenv("MYXQL_USER"),
     password |-> getenv("MYXQL_PASSWORD"),
     database |-> getenv("MYXQL_DATABASE")]

sqlite_credentials == [file_path |-> settings.BASE_DIR \o "/db.sqlite3"]

\* build_orm_config comparing the token case-insensitively
build_orm_config_nocase(db_type) ==
    IF db_type \in {Some("mysql"), Some("MySQL")}
    THEN [ret |-> orm_config("mysql", mysql_credentials),
          logged |-> <<LogRecord("info", MsgMysql)>>]
    ELSE IF db_type = Some("sqlite")
    THEN [ret |-> orm_config("sqlite", sqlite_credentials),
          logged |-> <<LogRecord("info", MsgSqlite)>>]
    ELSE [ret |-> orm_config("sqlite", sqlite_credentials),
          logged |-> <<LogRecord("info", MsgFallback)>>]

\* build_orm_config with the fallback notice only for an absent token
build_orm_config_quiet(db_type) ==
    IF db_type = Some("mysql")
    THEN [ret |-> orm_config("mysql", mysql_credentials),
          logged |-> <<LogRecord("info", MsgMysql)>>]
    ELSE IF db_type = Some("sqlite")
    THEN [ret |-> orm_config("sqlite", sqlite_credentials),
          logged |-> <<LogRecord("info", MsgSqlite)>>]
    ELSE [ret |-> orm_config("sqlite", sqlite_credentials),
          logged |-> IF db_type = None
                     THEN <<LogRecord("info", MsgFallback)>>
                     ELSE <<LogRecord("info", MsgSqlite)>>]

build_orm_config(db_type) ==
    IF db_type = Some("mysql")
    THEN [ret |-> orm_config("mysql", mysql_credentials),
          logged |-> <<LogRecord("info", MsgMysql)>>]
    ELSE IF db_type = Some("sqlite")
    THEN [ret |-> orm_config("sqlite", sqlite_credentials),
          logged |-> <<LogRecord("info", MsgSqlite)>>]
    ELSE [ret |-> orm_config("sqlite", sqlite_credentials),
          logged |-> <<LogRecord("info", MsgFallback)>>]

-----------------------------------------------------------------------------
(* load_static: the mount and the exception handler *)

StaticMount == [kind |-> "mount", path |-> "/", name |-> "dist"]

load_static(a) ==
    [routes |-> Append(a.routes, StaticMount),
     exception_handlers |-> a.exception_handlers \cup {"HTTPException"}]

JSONResponse(status, detail, by) ==
    [status_code |-> status, location |-> None, detail |-> Some(detail), by |-> by]

RedirectResponse(url, by) ==
    [status_code |-> HTTP_307_TEMPORARY_REDIRECT, location |-> Some(url),
     detail |-> None, by |-> by]

FileResponse(by) ==
    [status_code |-> 200, location |-> None, detail |-> None, by |-> by]

\* the response of the endpoint of a matched route
EndpointResponse(by) ==
    [status_code |-> 200, location |-> None, detail |-> None, by |-> by]

\* exception_handler testing for the prefix "/api/" instead of "/api"
exception_handler_slash(path, e) ==
    IF e.status_code = HTTP_404_NOT_FOUND
    THEN IF ~startswith(path, "/api/")
         THEN RedirectResponse("/", "exception_handler")
         ELSE JSONResponse(HTTP_404_NOT_FOUND, "Not Found", "exception_handler")
    ELSE JSONResponse(e.status_code, e.detail, "exception_handler")

\* the handler load_static registers for HTTPException
exception_handler(path, e) ==
    IF e.status_code = HTTP_404_NOT_FOUND
    THEN IF ~startswith(path, "/api")
         THEN RedirectResponse("/", "exception_handler")
         ELSE JSONResponse(HTTP_404_NOT_FOUND, "Not Found", "exception_handler")
    ELSE JSONResponse(e.status_code, e.detail, "exception_handler")

-----------------------------------------------------------------------------
(* Routing: starlette's Router tries the routes in registration order and *)
(* hands the request to the first one that matches                        *)

\* Mount("/") matches every path; a route matches its own path
Matches(route, path) ==
    IF route.kind = "mount" THEN startswith(path, "/") ELSE route.path = path

FirstMatch(routes, path) ==
    LET hits == {i \in 1..Len(routes) : Matches(routes[i], path)}
    IN  IF hits = {} THEN 0 ELSE CHOOSE i \in hits : \A j \in hits : i <= j

Returned(resp) == [raised |-> None, response |-> Some(resp)]

Raised(e) == [raised |-> Some(e), response |-> None]

\* what the matched route does with the request: StaticFiles sends the file or
\* raises 404, the router raises 404 when no route matches, an endpoint answers
Dispatch(path) ==
    LET i == FirstMatch(app.routes, path)
    IN  IF i = 0
        THEN Raised(HTTPException(HTTP_404_NOT_FOUND))
        ELSE IF app.routes[i].kind = "mount"
        THEN IF path \in dist
             THEN Returned(FileResponse(app.routes[i].name))
             ELSE Raised(HTTPException(HTTP_404_NOT_FOUND))
        ELSE Returned(EndpointResponse(app.routes[i].name))

\* the response to an HTTPException: the registered handler, else FastAPI's own
Answer(path, d) ==
    IF d.raised = None
    THEN d.response[1]
    ELSE IF "HTTPException" \in app.exception_handlers
         THEN exception_handler(path, d.raised[1])
         ELSE JSONResponse(d.raised[1].status_code, d.raised[1].detail, "default")

-----------------------------------------------------------------------------
(* Initial state: settings imported, load_dotenv() done, FastAPI(...) built *)

Envs ==
    {[n \in MysqlVars \cup {"LOAD_STATIC_FROM_LOCAL", "DATABASE_TYPE"} |->
        IF n = "LOAD_STATIC_FROM_LOCAL" THEN st
        ELSE IF n = "DATABASE_TYPE" THEN db
        ELSE IF n \in present THEN Some(MysqlValue(n)) ELSE None] :
     st \in StaticTokens, db \in DbTypeTokens, present \in SUBSET MysqlVars}

FastAPI == [routes |-> FastAPI_routes, exception_handlers |-> {}]

Init ==
    /\ env \in Envs
    /\ dist \in DistContents
    /\ settings = settings_loaded
    /\ app = FastAPI
    /\ log = <<>>
    /\ pc = "load_dotenv_file"
    /\ calls = <<>>
    /\ completed = <<>>
    /\ request = None
    /\ followed = FALSE
    /\ exc = None
    /\ response = None

-----------------------------------------------------------------------------
(* create_app *)

\* load_dotenv_file serving the static pages for every value that is set
load_dotenv_file_truthy ==
    /\ pc = "load_dotenv_file"
    /\ LET static == getenv("LOAD_STATIC_FROM_LOCAL") # None
           built == build_orm_config(getenv("DATABASE_TYPE"))
       IN  /\ app' = IF static THEN load_static(app) ELSE app
           /\ log' = (IF static
                      THEN Append(log, LogRecord("info", MsgStatic))
                      ELSE Append(log, LogRecord("warning", MsgNoStatic)))
                     \o built.logged
           /\ settings' = [settings EXCEPT !.TORTOISE_ORM = Some(built.ret)]
    /\ pc' = "register_db"
    /\ UNCHANGED <<env, dist, calls, completed, request, followed, exc, response>>

\* load_dotenv_file storing the database path in settings.BASE_DIR as well
load_dotenv_file_base_dir ==
    /\ pc = "load_dotenv_file"
    /\ LET static == getenv("LOAD_STATIC_FROM_LOCAL") = Some("true")
           built == build_orm_config(getenv("DATABASE_TYPE"))
       IN  /\ app' = IF static THEN load_static(app) ELSE app
           /\ log' = (IF static
                      THEN Append(log, LogRecord("info", MsgStatic))
                      ELSE Append(log, LogRecord("warning", MsgNoStatic)))
                     \o built.logged
           /\ settings' = [settings EXCEPT !.TORTOISE_ORM = Some(built.ret),
                                           !.BASE_DIR = @ \o "/db.sqlite3"]
    /\ pc' = "register_db"
    /\ UNCHANGED <<env, dist, calls, completed, request, followed, exc, response>>

load_dotenv_file ==
    /\ pc = "load_dotenv_file"
    /\ LET static == getenv("LOAD_STATIC_FROM_LOCAL") = Some("true")
           built == build_orm_config(getenv("DATABASE_TYPE"))
       IN  /\ app' = IF static THEN load_static(app) ELSE app
           /\ log' = (IF static
                      THEN Append(log, LogRecord("info", MsgStatic))
                      ELSE Append(log, LogRecord("warning", MsgNoStatic)))
                     \o built.logged
           /\ settings' = [settings EXCEPT !.TORTOISE_ORM = Some(built.ret)]
    /\ pc' = "register_db"
    /\ UNCHANGED <<env, dist, calls, completed, request, followed, exc, response>>

\* registers the ORM with the application; routes and handlers are left alone
register_db ==
    /\ pc = "register_db"
    /\ pc' = "register_exceptions"
    /\ UNCHANGED <<env, dist, settings, app, log, calls, completed,
                   request, followed, exc, response>>

\* registers handlers for the application's own exception classes
register_exceptions ==
    /\ pc = "register_exceptions"
    /\ pc' = "register_routers"
    /\ UNCHANGED <<env, dist, settings, app, log, calls, completed,
                   request, followed, exc, response>>

\* register_routers(app, prefix="/api"): the business routes, appended
register_routers ==
    /\ pc = "register_routers"
    /\ app' = [app EXCEPT !.routes = app.routes \o api_routes]
    /\ pc' = "created"
    /\ UNCHANGED <<env, dist, settings, log, calls, completed,
                   request, followed, exc, response>>

-----------------------------------------------------------------------------
(* startup_event: await init_superuser(); await init_menus() *)

startup_event ==
    /\ pc = "created"
    /\ calls' = Append(calls, "init_superuser")
    /\ pc' = "init_superuser"
    /\ UNCHANGED <<env, dist, settings, app, log, completed,
                   request, followed, exc, response>>

init_superuser_returns ==
    /\ pc = "init_superuser"
    /\ completed' = Append(completed, "init_superuser")
    /\ calls' = Append(calls, "init_menus")
    /\ pc' = "init_menus"
    /\ UNCHANGED <<env, dist, settings, app, log, request, followed, exc, response>>

\* init_superuser_raises with the exception swallowed: init_menus is awaited next
init_superuser_raises_swallowed ==
    /\ pc = "init_superuser"
    /\ calls' = Append(calls, "init_menus")
    /\ pc' = "init_menus"
    /\ UNCHANGED <<env, dist, settings, app, log, completed,
                   request, followed, exc, response>>

init_superuser_raises ==
    /\ pc = "init_superuser"
    /\ pc' = "startup_failed"
    /\ UNCHANGED <<env, dist, settings, app, log, calls, completed,
                   request, followed, exc, response>>

init_menus_returns ==
    /\ pc = "init_menus"
    /\ completed' = Append(completed, "init_menus")
    /\ pc' = "serving"
    /\ UNCHANGED <<env, dist, settings, app, log, calls, request, followed, exc, response>>

init_menus_raises ==
    /\ pc = "init_menus"
    /\ pc' = "startup_failed"
    /\ UNCHANGED <<env, dist, settings, app, log, calls, completed,
                   request, followed, exc, response>>

-----------------------------------------------------------------------------
(* Requests *)

Serve(path, isFollow) ==
    LET d == Dispatch(path)
    IN  /\ request' = Some(path)
        /\ followed' = isFollow
        /\ exc' = d.raised
        /\ response' = Some(Answer(path, d))
        /\ UNCHANGED <<env, dist, settings, app, log, pc, calls, completed>>

http_request ==
    /\ pc = "serving"
    /\ \E path \in RequestPaths : Serve(path, FALSE)

\* a browser follows the redirect it was sent
follow_redirect ==
    /\ pc = "serving"
    /\ response # None
    /\ response[1].location # None
    /\ Serve(response[1].location[1], TRUE)

Next ==
    \/ load_dotenv_file
    \/ register_db
    \/ register_exceptions
    \/ register_routers
    \/ startup_event
    \/ init_superuser_returns
    \/ init_superuser_raises
    \/ init_menus_returns
    \/ init_menus_raises
    \/ http_request
    \/ follow_redirect

Spec == Init /\ [][Next]_vars

-----------------------------------------------------------------------------
(* The exception handler on its own: every path up to MaxPathLen and every *)
(* status, handed to the handler load_static registers                     *)

HandlerInit ==
    /\ env \in {e \in Envs : /\ e["LOAD_STATIC_FROM_LOCAL"] = Some("true")
                             /\ e["DATABASE_TYPE"] = None
                             /\ \A n \in MysqlVars : e[n] = None}
    /\ dist = {}
    /\ settings = settings_loaded
    /\ app = load_static(FastAPI)
    /\ log = <<>>
    /\ pc = "exception_handler"
    /\ calls = <<>>
    /\ completed = <<>>
    /\ request = None
    /\ followed = FALSE
    /\ exc = None
    /\ response = None

handle ==
    /\ pc = "exception_handler"
    /\ request = None
    /\ \E path \in Paths, status \in Statuses :
        /\ request' = Some(path)
        /\ exc' = Some(HTTPException(status))
        /\ response' = Some(exception_handler(path, HTTPException(status)))
    /\ UNCHANGED <<env, dist, settings, app, log, pc, calls, completed, followed>>

HandlerNext == handle

HandlerSpec == HandlerInit /\ [][HandlerNext]_vars

-----------------------------------------------------------------------------
(* Properties *)

Range(seq) == {seq[i] : i \in 1..Len(seq)}

\* build_orm_config has returned and its value is stored
Resolved == settings.TORTOISE_ORM # None

Config == settings.TORTOISE_ORM[1]

Token == getenv("DATABASE_TYPE")

Fallback == Token \notin {Some("mysql"), Some("sqlite")}

StaticEnabled == getenv("LOAD_STATIC_FROM_LOCAL") = Some("true")

Answered == pc = "serving" /\ request # None

IsRedirectToRoot(r) == r.status_code = 307 /\ r.location = Some("/")

IsNotFoundJson(r) ==
    r.status_code = 404 /\ r.detail = Some("Not Found") /\ r.location = None

IsPage(r) == r.status_code = 200 /\ r.location = None

\* C1: for every DATABASE_TYPE token other than exactly "mysql" or "sqlite"
\* (absent and case variants included) build_orm_config returns, and what it
\* returns has the single connection "sqlite" with the sqlite engine and
\* credentials file_path = "{BASE_DIR}/db.sqlite3".
C1_FallbackIsSqlite ==
    (pc # "load_dotenv_file" /\ Fallback) =>
        /\ Resolved
        /\ DOMAIN Config.connections = {"sqlite"}
        /\ Config.connections["sqlite"].engine = "tortoise.backends.sqlite"
        /\ DOMAIN Config.connections["sqlite"].credentials = {"file_path"}
        /\ Config.connections["sqlite"].credentials.file_path
                = BASE_DIR \o "/db.sqlite3"

C1_Witness == Resolved /\ Token = Some("MySQL")

\* C2: every configuration build_orm_config returns declares exactly one
\* connection; default_connection of the models app is the name of that
\* connection, which is the resolved backend kind, and the engine string is
\* derived from the same kind.
C2_OneDefaultConnection ==
    Resolved =>
        LET kind == IF Token = Some("mysql") THEN "mysql" ELSE "sqlite"
        IN  /\ Cardinality(DOMAIN Config.connections) = 1
            /\ DOMAIN Config.connections = {Config.apps.models.default_connection}
            /\ Config.apps.models.default_connection = kind
            /\ Config.connections[kind].engine = "tortoise.backends." \o kind

C2_Witness == Resolved /\ Token = Some("mysql")

CredentialVar ==
    [host |-> "MYXQL_HOST", port |-> "MYXQL_PORT", user |-> "MYXQL_USER",
     password |-> "MYXQL_PASSWORD", database |-> "MYXQL_DATABASE"]

\* C3: with the token "mysql" the backend is mysql and its five credential
\* fields are the values of the MYXQL_* variables; a field whose variable is
\* absent is None, for every subset of absent variables, and the call returns.
C3_MysqlCredentialsVerbatim ==
    (pc # "load_dotenv_file" /\ Token = Some("mysql")) =>
        /\ Resolved
        /\ DOMAIN Config.connections = {"mysql"}
        /\ DOMAIN Config.connections["mysql"].credentials = DOMAIN CredentialVar
        /\ \A f \in DOMAIN CredentialVar :
            LET v == Config.connections["mysql"].credentials[f]
            IN  IF CredentialVar[f] \in {n \in MysqlVars : env[n] # None}
                THEN v = Some(MysqlValue(CredentialVar[f]))
                ELSE v = None

C3_Witness ==
    /\ Resolved
    /\ Token = Some("mysql")
    /\ env["MYXQL_PORT"] = None
    /\ env["MYXQL_PASSWORD"] = None
    /\ env["MYXQL_HOST"] # None

\* C4: for every HTTPException with status 404 handed to the handler, the
\* response is a redirect to "/" exactly when the request path does not start
\* with "/api"; when it does (also "/apifoo"-like paths) the response is
\* status 404 with detail "Not Found".
C4_NotFoundByPrefix ==
    (response # None /\ exc # None /\ exc[1].status_code = 404) =>
        LET api == Len(request[1]) >= 4 /\ SubSeq(request[1], 1, 4) = "/api"
        IN  /\ IsRedirectToRoot(response[1]) <=> ~api
            /\ api => IsNotFoundJson(response[1])

C4_Witness ==
    /\ request = Some("/apia")
    /\ exc # None
    /\ exc[1].status_code = 404
    /\ IsNotFoundJson(response[1])

\* C5: init_menus starts only after init_superuser has returned; when
\* init_superuser raises, the startup event fails at that step, init_menus is
\* not started then or later, and a failed startup stays failed.
C5_SuperuserBeforeMenus ==
    /\ []("init_menus" \in Range(calls) => "init_superuser" \in Range(completed))
    /\ [][(pc = "init_superuser" /\ pc' # pc /\ completed' = completed)
            => (pc' = "startup_failed" /\ calls' = calls)]_vars
    /\ [][pc = "startup_failed" => (pc' = "startup_failed" /\ calls' = calls)]_vars

C5_Witness ==
    pc = "startup_failed" /\ completed = <<>> /\ calls = <<"init_superuser">>

C7_Original == [][settings' = settings]_vars

\* C7: settings changes in one step only, load_dotenv_file, and only in its
\* attribute TORTOISE_ORM, which receives the resolved configuration; every
\* other attribute keeps the value it was loaded with.
C7_OnlyOrmWritten ==
    /\ [](\A a \in DOMAIN settings_loaded \ {"TORTOISE_ORM"} :
            settings[a] = settings_loaded[a])
    /\ [][settings' # settings =>
            (pc = "load_dotenv_file" /\ settings.TORTOISE_ORM = None
             /\ settings'.TORTOISE_ORM # None)]_vars

C7_Witness == pc = "serving" /\ Resolved /\ settings.BASE_DIR = BASE_DIR

\* C8: with static serving on, a browser that followed a redirect to "/" is
\* answered there with a page, not with another redirect and not with a 404.
C8_LandsOnRoot ==
    (StaticEnabled /\ Answered /\ followed /\ request = Some("/")) =>
        IsPage(response[1])

\* C9 as stated: the fallback to sqlite is logged at warning level.
C9_Original ==
    (Resolved /\ Fallback) =>
        \E r \in Range(log) : r.msg = MsgFallback /\ r.level = "warning"

\* C9: the fallback to sqlite is logged, at info level, exactly when the token
\* is neither "mysql" nor "sqlite"; the notice is never logged at another level.
C9_FallbackLoggedAtInfo ==
    Resolved =>
        /\ Fallback <=> LogRecord("info", MsgFallback) \in Range(log)
        /\ \A r \in Range(log) : r.msg = MsgFallback => r.level = "info"

C9_Witness ==
    Resolved /\ Token = Some("postgres") /\ LogRecord("info", MsgFallback) \in Range(log)

\* C10: with static serving on, a request for the path of a business route
\* registered under /api is answered by that route.
C10_ApiNotShadowed ==
    (StaticEnabled /\ Answered
        /\ \E i \in 1..Len(api_routes) : api_routes[i].path = request[1]) =>
        response[1].by = "api"

====
